---- MODULE Spec2Model ----
(***************************************************************************)
(* pandas-ta indicator engine: the Super Smoother Filter (ssf), the volume *)
(* weighted average price (vwap), the volume profile (vp), the two linear  *)
(* regression backends and the DataFrame accessor's dispatcher.            *)
(*                                                                         *)
(* A Series is a function over the positions 0..m-1 (Python's 0-based      *)
(* .iloc positions).  Floats are modelled in two ways: the recurrence      *)
(* filter uses fixed point numbers with Scale units per 1.0 and rounding   *)
(* after every product; the ratio computations (vwap, vp, regression) use  *)
(* exact fractions <<n, d>> with the IEEE results of a division by zero    *)
(* (nan, inf) as fractions with a zero denominator.                        *)
(***************************************************************************)
EXTENDS Integers, Sequences, FiniteSets, TLC

VARIABLES
    pc,         \* where the running call stands
    m,          \* close.size
    close,      \* the input series `close`
    offset,     \* the `offset` argument, then its validated value
    result,     \* what the call returned
    length,     \* ssf: the `length` argument, then its validated value
    poles,      \* ssf: the `poles` argument, then its validated value
    ssf,        \* ssf: the output buffer of the pass
    i,          \* ssf: the loop index
    coef,       \* ssf: the filter coefficients
    reads,      \* ssf: the positions the pass has read from the buffer
    high,       \* vwap: the input series `high`
    low,        \* vwap: the input series `low`
    volume,     \* vwap, vp: the input series `volume`
    index,      \* vwap: the timestamps of the rows (hours since the epoch)
    warned,     \* vwap: the number of "not datetime ordered" warnings printed
    width,      \* vp: the `width` argument, then its validated value
    sort_close, \* vp: the `sort_close` keyword
    vp_ranges,  \* vp: the rows of each bucket, in row order
    pos_volume, \* vp: the volume of the rows of positive sign, nan elsewhere
    neg_volume, \* vp: the volume of the rows of negative sign, nan elsewhere
    lr_x,       \* linear_regression: the series `x`
    lr_y,       \* linear_regression: the series `y`
    Imports,    \* linear_regression: Imports["sklearn"]
    backend,    \* linear_regression: the backend that was invoked
    kind,       \* ta(): the `kind` argument
    alias,      \* ta(): the `alias` argument
    timed,      \* ta(): the `timed` argument
    kwargs,     \* ta(): the keyword arguments handed to the indicator;
                \* _get_column: its two arguments
    df_empty,   \* ta(): whether the DataFrame was empty at construction
    table,      \* ta(): the columns of the DataFrame, in order
    fn,         \* ta(): the attribute getattr found
    raised,     \* ta(): the exception in flight, then the one that propagated
    helped,     \* ta(): the number of help listings shown
    calls       \* ta(): the number of calls made on the accessor

callVars == <<pc, m, close, offset, result>>
ssfVars == <<length, poles, ssf, i, coef, reads>>
barVars == <<high, low, volume, index, warned>>
vpVars == <<width, sort_close, vp_ranges, pos_volume, neg_volume>>

lrVars == <<lr_x, lr_y, Imports, backend>>
taVars == <<kind, alias, timed, kwargs, df_empty, table, fn, raised, helped, calls>>

vars == <<callVars, ssfVars, barVars, vpVars, lrVars, taVars>>

\* ------------------------------------------------------------------ bounds
MaxLen == 4

\* ------------------------------------------------------- values and helpers
\* An optional argument: None, or an integer.
None == [given |-> FALSE, v |-> 0]
Some(n) == [given |-> TRUE, v |-> n]

\* Fixed point: Scale units per 1.0.
Scale == 10 * 10 * 10

One == Scale

FxMul(a, b) == ((a * b) + (Scale \div 2)) \div Scale

NaN == [nan |-> TRUE]

Positions(n) == 0 .. (n - 1)

SeriesOf(n, S) == [Positions(n) -> S]

\* The series f of n rows, every row evaluated once.
RECURSIVE Rows(_, _)
Rows(f, n) == IF n = 0 THEN << >> ELSE Rows(f, n - 1) @@ ((n - 1) :> f[n - 1])

CloseVals == {0, Scale, 2 * Scale}

\* ---------------------------------------------------------------- fractions
\* A float of the ratio computations is an exact fraction <<n, d>> in lowest
\* terms with d > 0; <<0, 0>> is nan, <<1, 0>> is inf and <<-1, 0>> is -inf.
Abs(n) == IF n < 0 THEN 0 - n ELSE n

Sign(n) == IF n < 0 THEN 0 - 1 ELSE IF n > 0 THEN 1 ELSE 0

RECURSIVE Gcd(_, _)
Gcd(a, b) == IF b = 0 THEN a ELSE Gcd(b, a % b)

Q(n, d) ==
    IF d = 0 THEN <<Sign(n), 0>>
    ELSE LET g == Gcd(Abs(n), Abs(d))
         IN  <<(Sign(d) * n) \div g, Abs(d) \div g>>

QInt(n) == <<n, 1>>

QNaN == <<0, 0>>

IsFinite(a) == a[2] # 0

IsNaN(a) == a = QNaN

QAdd(a, b) ==
    IF IsFinite(a) /\ IsFinite(b) THEN Q((a[1] * b[2]) + (b[1] * a[2]), a[2] * b[2])
    ELSE IF IsNaN(a) \/ IsNaN(b) THEN QNaN
    ELSE IF IsFinite(a) THEN b
    ELSE IF IsFinite(b) \/ a = b THEN a
    ELSE QNaN

QMul(a, b) == Q(a[1] * b[1], a[2] * b[2])

QDiv(a, b) == Q(a[1] * b[2], a[2] * b[1])

QNeg(a) == <<0 - a[1], a[2]>>

QSub(a, b) == QAdd(a, QNeg(b))

QLess(a, b) == a[1] * b[2] < b[1] * a[2]

QLeq(a, b) == a[1] * b[2] <= b[1] * a[2]

\* The value a variable holds while the indicator that owns it is not running.
Idle == "idle"

\* ===================================================================== ssf
LengthArgs == {None, Some(0), Some(2), Some(10)}
PolesArgs == {None, Some(2), Some(3), Some(4)}
OffsetArgs == {None, Some(1)}

\* length = int(length) if length and length > 0 else 10
ValidLength(arg) == IF arg.given /\ arg.v > 0 THEN arg.v ELSE 10

\* poles = int(poles) if poles in [2, 3] else 2
ValidPoles(arg) == IF arg.given /\ arg.v \in {2, 3} THEN arg.v ELSE 2

\* get_offset(offset): int(offset) if offset else 0
get_offset(arg) == IF arg.given /\ arg.v # 0 THEN arg.v ELSE 0

\* a0 = npExp(-x) with x = PI / n (3 poles), x = PI * 2^(.5) / n (2 poles),
\* tabulated to three decimals for the lengths of LengthArgs.
ExpNegX(p, n) ==
    IF p = 3 THEN (IF n = 2 THEN 208 ELSE 730)
    ELSE (IF n = 2 THEN 108 ELSE 641)

\* npCos(npSqrt(3) * x) (3 poles), npCos(x) (2 poles), tabulated likewise.
CosX(p, n) ==
    IF p = 3 THEN (IF n = 2 THEN 0 - 913 ELSE 856)
    ELSE (IF n = 2 THEN 0 - 606 ELSE 903)

\* The coefficients <<c1, k1, .., kp>>: c1 weighs close[i], kj weighs ssf[i-j].
Coefficients3(n) ==
    LET a0 == ExpNegX(3, n)
        b0 == FxMul(2 * a0, CosX(3, n))
        c0 == FxMul(a0, a0)
        c4 == FxMul(c0, c0)
        c3 == FxMul(0 - c0, One + b0)
        c2 == c0 + b0
        c1 == One - c2 - c3 - c4
    IN  <<c1, c2, c3, c4>>

Coefficients2(n) ==
    LET a0 == ExpNegX(2, n)
        a1 == FxMul(0 - a0, a0)
        b1 == FxMul(2 * a0, CosX(2, n))
        c1 == One - a1 - b1
    IN  <<c1, b1, a1>>

Coefficients(p, n) == IF p = 3 THEN Coefficients3(n) ELSE Coefficients2(n)

\* Series.iloc[k] on a series of n rows: a negative k counts from the end,
\* a position outside -n..n-1 raises IndexError (OutOfBounds).
OutOfBounds == 0 - 1

ILoc(n, k) ==
    IF k >= 0 THEN (IF k < n THEN k ELSE OutOfBounds)
    ELSE (IF k + n >= 0 THEN k + n ELSE OutOfBounds)

\* ssf = close.copy(); ssf[poles:] = 0
SeedBuffer(c, n, p) == [k \in Positions(n) |-> IF k >= p THEN 0 ELSE c[k]]

\* The caller's series if the buffer were the series itself (ssf = close).
SharedWithBuffer(c, buf) == buf

\* The caller's series after a write to the buffer: the buffer is
\* close.copy(), an object of its own, so the series keeps its rows.
CallerSeries(c, buf) == c

\* The positions one iteration of the loop reads from ssf: i-1 .. i-poles.
ReadOffsets(p, at) == {at - j : j \in 1 .. p}

RECURSIVE History(_, _, _, _, _)
History(cf, buf, n, at, j) ==
    IF j = 0 THEN 0
    ELSE History(cf, buf, n, at, j - 1) + FxMul(cf[j + 1], buf[ILoc(n, at - j)])

\* Recurrence with the weights of ssf[i-1] and ssf[i-2] exchanged.
SwappedRecurrence(cf, c, buf, n, p, at) ==
    FxMul(cf[1], c[at]) + FxMul(cf[3], buf[ILoc(n, at - 1)])
        + FxMul(cf[2], buf[ILoc(n, at - 2)])
        + (IF p = 3 THEN FxMul(cf[4], buf[ILoc(n, at - 3)]) ELSE 0)

\* c1 * close.iloc[i] + c2 * ssf.iloc[i - 1] + c3 * ssf.iloc[i - 2] (+ c4 * ssf.iloc[i - 3])
Recurrence(cf, c, buf, n, p, at) ==
    FxMul(cf[1], c[at]) + History(cf, buf, n, at, p)

\* ssf.shift(offset): row k takes the value of row k - offset, nan when absent.
Shift(buf, n, off) ==
    [k \in Positions(n) |-> IF k - off \in Positions(n) THEN buf[k - off] ELSE NaN]

SsfIdle ==
    /\ length = Idle
    /\ poles = Idle
    /\ ssf = Idle
    /\ i = 0
    /\ coef = Idle
    /\ reads = {}

BarsIdle ==
    /\ high = Idle
    /\ low = Idle
    /\ volume = Idle
    /\ index = Idle
    /\ warned = 0

VpIdle ==
    /\ width = Idle
    /\ sort_close = FALSE
    /\ vp_ranges = Idle
    /\ pos_volume = Idle
    /\ neg_volume = Idle

LrIdle ==
    /\ lr_x = Idle
    /\ lr_y = Idle
    /\ Imports = Idle
    /\ backend = Idle

TaIdle ==
    /\ kind = Idle
    /\ alias = Idle
    /\ timed = FALSE
    /\ kwargs = Idle
    /\ df_empty = FALSE
    /\ table = Idle
    /\ fn = Idle
    /\ raised = Idle
    /\ helped = 0
    /\ calls = 0

SsfInit ==
    /\ pc = "ssf_args"
    /\ LrIdle
    /\ TaIdle
    /\ m \in 0 .. MaxLen
    /\ close \in SeriesOf(m, CloseVals)
    /\ length \in LengthArgs
    /\ poles \in PolesArgs
    /\ offset \in OffsetArgs
    /\ ssf = Idle
    /\ i = 0
    /\ coef = Idle
    /\ reads = {}
    /\ result = Idle
    /\ BarsIdle
    /\ VpIdle

\* ssf.py 13-32 / 38-42: validate the arguments, copy and seed the buffer,
\* compute the coefficients.
SsfSetup ==
    /\ pc = "ssf_args"
    /\ UNCHANGED <<lrVars, taVars>>
    /\ length' = Some(ValidLength(length))
    /\ poles' = Some(ValidPoles(poles))
    /\ offset' = Some(get_offset(offset))
    /\ ssf' = SeedBuffer(close, m, ValidPoles(poles))
    /\ coef' = Coefficients(ValidPoles(poles), ValidLength(length))
    /\ i' = 0
    /\ close' = CallerSeries(close, ssf')
    /\ pc' = "ssf_loop"
    /\ UNCHANGED <<m, reads, result, barVars, vpVars>>

\* One iteration of `for i in range(0, m)`.
SsfIterate ==
    /\ pc = "ssf_loop"
    /\ UNCHANGED <<lrVars, taVars>>
    /\ i < m
    /\ reads' = reads \cup {[at |-> i, idx |-> k, pos |-> ILoc(m, k)] :
                                k \in ReadOffsets(poles.v, i)}
    /\ IF \E k \in ReadOffsets(poles.v, i) : ILoc(m, k) = OutOfBounds
       THEN /\ pc' = "ssf_raised"
            /\ UNCHANGED <<ssf, i>>
       ELSE /\ ssf' = [ssf EXCEPT ![i] = Recurrence(coef, close, ssf, m, poles.v, i)]
            /\ i' = i + 1
            /\ pc' = pc
    /\ close' = CallerSeries(close, ssf')
    /\ UNCHANGED <<length, poles, offset, m, coef, result, barVars, vpVars>>

\* ssf.py 47-55: the loop is over; shift by the offset and return.
SsfReturn ==
    /\ pc = "ssf_loop"
    /\ UNCHANGED <<lrVars, taVars>>
    /\ i >= m
    /\ result' = IF offset.v # 0 THEN Shift(ssf, m, offset.v) ELSE ssf
    /\ pc' = "ssf_done"
    /\ UNCHANGED <<close, length, poles, offset, m, ssf, i, coef, reads, barVars, vpVars>>

SsfNext == SsfSetup \/ SsfIterate \/ SsfReturn

SpecSsf == SsfInit /\ [][SsfNext]_vars

\* ------------------------------------------------------------- ssf claims

\* C2: for a series of m >= order rows and offset 0, the first `order` rows
\* of the returned series equal the input rows (the seed rows are unmodified).
SsfSeedRowsUnmodified ==
    (pc = "ssf_done" /\ m >= poles.v /\ offset.v = 0)
        => \A k \in 0 .. (poles.v - 1) : result[k] = close[k]

\* C3: no iteration of the pass reads a previous output through a negative
\* position that wraps around to the tail of the series (position m + (i-j)).
SsfNoWrapAroundRead ==
    \A r \in reads : r.idx < 0 => r.pos # m + r.idx

RECURSIVE EmittedSum(_, _)
EmittedSum(k, j) ==
    IF j = 0 THEN 0 ELSE EmittedSum(k, j - 1) + FxMul(coef[j + 1], ssf[k - j])

\* C4: after the pass, every row i with order <= i < m holds
\* c1*input[i] + sum over j = 1..order of coeff_j * output[i-j], with the
\* outputs of this same pass and the coefficients computed once from length
\* and order, the same in every state of the pass.
SsfRecurrenceHolds ==
    /\ pc \in {"ssf_loop", "ssf_raised", "ssf_done"}
          => coef = Coefficients(poles.v, length.v)
    /\ pc = "ssf_done"
          => \A k \in poles.v .. (m - 1) :
                 /\ ssf[k] = FxMul(coef[1], close[k]) + EmittedSum(k, poles.v)
                 /\ offset.v = 0 => result[k] = ssf[k]

SsfRecurrenceWitness ==
    /\ pc = "ssf_done"
    /\ poles.v = 3
    /\ m = 4
    /\ offset.v = 0
    /\ result[3] # 0
    /\ result[3] # close[3]
    /\ result[2] # 0

\* The tolerance of "approximately equal" in fixed point: one percent.
Tolerance == Scale \div 100

\* Every row of the series holds the same value.
IsConstant(c, n) == \A j \in Positions(n), k \in Positions(n) : c[j] = c[k]

\* C18: for a constant input series of value v (and no offset) every returned
\* row at a position i >= order is approximately v: the coefficients sum to
\* one, so the filter has unit gain on a constant.
SsfConstantGain ==
    (/\ pc = "ssf_done"
     /\ offset.v = 0
     /\ IsConstant(close, m))
        => \A k \in Positions(m) :
               k >= poles.v => Abs(result[k] - close[k]) <= Tolerance

\* C19: no step of ssf changes the series the caller passed in: every write
\* goes to the copy.
SsfInputUntouched == [][close' = close]_vars

\* A finished call whose buffer was written: rows of the output differ from
\* the input, which still holds a non-zero row past the seed.
SsfInputUntouchedWitness ==
    /\ pc = "ssf_done"
    /\ m = 3
    /\ poles.v = 2
    /\ offset.v = 0
    /\ close[2] # 0
    /\ ssf[2] # close[2]
    /\ ssf[0] # close[0]

\* ==================================================================== vwap
MaxRows == 3

\* Bars (high, low, close) with low <= close <= high.
Bars == {<<3, 1, 2>>, <<4, 3, 4>>}
VolumeVals == {0, 1, 2}
\* Hours since the epoch: 9 is on the first calendar day, 33 on the second.
Timestamps == {9, 33}

BarSeries(n) == SeriesOf(n, Bars)

\* index.to_period('d'): the calendar day of a timestamp.
to_period_d(ts) == ts \div 24

\* hlc3(high, low, close): the typical price (high + low + close) / 3.
hlc3(h, l, c, n) ==
    [k \in Positions(n) |-> QDiv(QInt(h[k] + l[k] + c[k]), QInt(3))]

\* is_datetime_ordered(series): the index is monotonically increasing.
is_datetime_ordered(idx, n) ==
    \A k \in Positions(n) : k + 1 < n => idx[k] <= idx[k + 1]

\* The running sums, per group, after the rows 0..k of s.
RECURSIVE RunningSums(_, _, _)
RunningSums(s, key, k) ==
    IF k < 0 THEN [g \in {} |-> QInt(0)]
    ELSE LET prev == RunningSums(s, key, k - 1)
             g == key[k]
         IN  IF g \in DOMAIN prev
             THEN [prev EXCEPT ![g] = QAdd(@, s[k])]
             ELSE [h \in (DOMAIN prev) \cup {g} |-> IF h = g THEN s[k] ELSE prev[h]]

\* A cumsum that never starts afresh: one group for the whole series.
UngroupedCumSum(s, key, n) ==
    [k \in Positions(n) |-> RunningSums(s, [j \in Positions(n) |-> 0], k)[0]]

\* s.groupby(key).cumsum(): at each row, the sum of its group's rows so far.
GroupCumSum(s, key, n) ==
    [k \in Positions(n) |-> RunningSums(s, key, k)[key[k]]]

\* series.shift(offset) on a series of fractions.
ShiftQ(s, n, off) ==
    [k \in Positions(n) |-> IF k - off \in Positions(n) THEN s[k - off] ELSE QNaN]

\* vwap with the volume summed over the whole series instead of per day.
VwapWholeVolume(h, l, c, v, idx, n, off) ==
    LET typical_price == hlc3(h, l, c, n)
        weighted_price == [k \in Positions(n) |-> QMul(typical_price[k], QInt(v[k]))]
        period == [k \in Positions(n) |-> to_period_d(idx[k])]
        num == GroupCumSum(weighted_price, period, n)
        den == UngroupedCumSum([k \in Positions(n) |-> QInt(v[k])], period, n)
        out == [k \in Positions(n) |-> QDiv(num[k], den[k])]
    IN  IF off # 0 THEN ShiftQ(out, n, off) ELSE out

\* vwap.py 14-33: the returned series.
Vwap(h, l, c, v, idx, n, off) ==
    LET typical_price == hlc3(h, l, c, n)
        weighted_price == [k \in Positions(n) |-> QMul(typical_price[k], QInt(v[k]))]
        period == [k \in Positions(n) |-> to_period_d(idx[k])]
        num == GroupCumSum(weighted_price, period, n)
        den == GroupCumSum([k \in Positions(n) |-> QInt(v[k])], period, n)
        out == [k \in Positions(n) |-> QDiv(num[k], den[k])]
    IN  IF off # 0 THEN ShiftQ(out, n, off) ELSE out

VwapInit ==
    /\ pc = "vwap_args"
    /\ LrIdle
    /\ TaIdle
    /\ m \in 0 .. MaxRows
    /\ \E bars \in BarSeries(m) :
          /\ high = [k \in Positions(m) |-> bars[k][1]]
          /\ low = [k \in Positions(m) |-> bars[k][2]]
          /\ close = [k \in Positions(m) |-> bars[k][3]]
    /\ volume \in SeriesOf(m, VolumeVals)
    /\ index \in SeriesOf(m, Timestamps)
    /\ offset \in OffsetArgs
    /\ warned = 0
    /\ result = Idle
    /\ SsfIdle
    /\ VpIdle

\* The whole call vwap(high, low, close, volume, offset).
VwapCall ==
    /\ pc = "vwap_args"
    /\ UNCHANGED <<lrVars, taVars>>
    /\ offset' = Some(get_offset(offset))
    /\ warned' = IF is_datetime_ordered(index, m) THEN 0 ELSE 2
    /\ result' = Vwap(high, low, close, volume, index, m, get_offset(offset))
    /\ pc' = "vwap_done"
    /\ UNCHANGED <<m, close, high, low, volume, index, ssfVars, vpVars>>

VwapNext == VwapCall

SpecVwap == VwapInit /\ [][VwapNext]_vars

\* ------------------------------------------------------------ vwap claims
\* The rows up to and including r that fall on r's calendar day.
DayRowsUpTo(r) ==
    {k \in 0 .. r : to_period_d(index[k]) = to_period_d(index[r])}

RECURSIVE SumOver(_, _)
SumOver(S, f) ==
    IF S = {} THEN 0
    ELSE LET k == CHOOSE e \in S : TRUE IN f[k] + SumOver(S \ {k}, f)

\* Three times typical_price * volume of each row: (high + low + close) * volume.
TripleWeighted == [k \in Positions(m) |-> (high[k] + low[k] + close[k]) * volume[k]]

RECURSIVE RowsOfDay(_, _, _)
RowsOfDay(idx, n, d) ==
    IF n = 0 THEN << >>
    ELSE IF to_period_d(idx[n - 1]) = d
         THEN Append(RowsOfDay(idx, n - 1, d), n - 1)
         ELSE RowsOfDay(idx, n - 1, d)

\* The series s restricted to the rows ps, re-positioned from 0.
Take(s, ps) == [k \in Positions(Len(ps)) |-> s[ps[k + 1]]]

SecondDay == to_period_d(33)

\* The inputs that keep the index and the rows of the second day and take
\* any bars and volumes on the other rows.
Alternatives ==
    {alt \in [Positions(m) -> [bar : Bars, vol : VolumeVals]] :
        \A k \in Positions(m) :
            to_period_d(index[k]) = SecondDay
                => alt[k] = [bar |-> <<high[k], low[k], close[k]>>, vol |-> volume[k]]}

VwapOfAlternative(alt) ==
    Vwap([k \in Positions(m) |-> alt[k].bar[1]],
         [k \in Positions(m) |-> alt[k].bar[2]],
         [k \in Positions(m) |-> alt[k].bar[3]],
         [k \in Positions(m) |-> alt[k].vol], index, m, 0)

AgreesOnSecondDay(out) ==
    \A k \in Positions(m) : to_period_d(index[k]) = SecondDay => out[k] = result[k]

MaxBars == 4

PriceVals == {1, 2, 3}
VpVolumeVals == {1, 2}
WidthArgs == {None, Some(1), Some(2), Some(3)}

\* width = int(width) if width and width > 0 else 10
ValidWidth(arg) == IF arg.given /\ arg.v > 0 THEN arg.v ELSE 10

\* verify_series(series, min_length): the series, or None.  A series of at
\* least min_length rows is returned; whether a shorter one is returned or
\* refused is not fixed by what is known of the helper, so both may happen.
verify_series(n, min_length) == IF n >= min_length THEN {TRUE} ELSE {TRUE, FALSE}

\* The sign a flat row (close equal to the previous close) may be given.
FlatSigns == {1, 0 - 1}

\* signed_series(close, initial=1): the direction of each close-to-close
\* change, `initial` on the first row and the default sign on a flat row.
signed_series(c, n, initial, flat) ==
    [k \in Positions(n) |->
        IF k = 0 THEN initial
        ELSE IF c[k] > c[k - 1] THEN 1
        ELSE IF c[k] < c[k - 1] THEN 0 - 1
        ELSE flat]

\* signed_price[signed_price > 0] * volume: nan on the rows not selected.
PosVolume(sp, v, n) ==
    [k \in Positions(n) |-> IF sp[k] > 0 THEN QInt(sp[k] * v[k]) ELSE QNaN]

\* The negative volume without the sign turned: signed_price * volume.
NegVolumeSigned(sp, v, n) ==
    [k \in Positions(n) |-> IF sp[k] < 0 THEN QInt(sp[k] * v[k]) ELSE QNaN]

\* signed_price[signed_price < 0] * -volume
NegVolume(sp, v, n) ==
    [k \in Positions(n) |-> IF sp[k] < 0 THEN QInt(sp[k] * (0 - v[k])) ELSE QNaN]

\* Series.sum(): the sum of the rows ps that are not nan.
RECURSIVE SumSkipNa(_, _)
SumSkipNa(s, ps) ==
    IF ps = << >> THEN QInt(0)
    ELSE LET x == s[Head(ps)]
         IN  IF IsNaN(x) THEN SumSkipNa(s, Tail(ps)) ELSE QAdd(x, SumSkipNa(s, Tail(ps)))

RECURSIVE Total(_, _)
Total(c, ps) == IF ps = << >> THEN 0 ELSE c[Head(ps)] + Total(c, Tail(ps))

\* Series.min(), .max(), .mean() of close over the rows ps: nan for no rows.
CloseMin(c, ps) ==
    IF ps = << >> THEN QNaN
    ELSE QInt(CHOOSE x \in {c[ps[j]] : j \in 1 .. Len(ps)} :
                  \A j \in 1 .. Len(ps) : x <= c[ps[j]])

CloseMax(c, ps) ==
    IF ps = << >> THEN QNaN
    ELSE QInt(CHOOSE x \in {c[ps[j]] : j \in 1 .. Len(ps)} :
                  \A j \in 1 .. Len(ps) : x >= c[ps[j]])

CloseMean(c, ps) == Q(Total(c, ps), Len(ps))

\* numpy.array_split without the longer leading sections: every section has
\* n // sections rows.
EvenSplit(n, sections) ==
    [j \in Positions(sections) |->
        [k \in 1 .. (n \div sections) |-> (j * (n \div sections)) + k - 1]]

\* numpy.array_split(vp, width): the first n % width sections have
\* n // width + 1 rows, the others n // width.
array_split(n, sections) ==
    LET each == n \div sections
        extras == n % sections
        start(j) == (j * each) + (IF j < extras THEN j ELSE extras)
        size(j) == each + (IF j < extras THEN 1 ELSE 0)
    IN  [j \in Positions(sections) |-> [k \in 1 .. size(j) |-> start(j) + k - 1]]

\* ---- pandas.cut(close, width, include_lowest=True, precision=2)
RECURSIVE Pow10(_)
Pow10(e) == IF e = 0 THEN 1 ELSE 10 * Pow10(e - 1)

Thousandth == Q(1, Pow10(3))

\* numpy.around of a fraction to an integer: half to even.
RoundHalfEven(a) ==
    LET fl == a[1] \div a[2]
        r == a[1] - (fl * a[2])
    IN  IF 2 * r < a[2] THEN fl
        ELSE IF 2 * r > a[2] THEN fl + 1
        ELSE IF fl % 2 = 0 THEN fl ELSE fl + 1

\* The zeros between the decimal point and the first digit of 0 < |a| < 1.
RECURSIVE LeadingZeros(_)
LeadingZeros(a) ==
    IF QLeq(Q(1, 10), <<Abs(a[1]), a[2]>>) THEN 0
    ELSE 1 + LeadingZeros(QMul(a, QInt(10)))

\* pandas _round_frac(x, precision)
round_frac(a, precision) ==
    IF a[1] = 0 THEN a
    ELSE LET digits == IF Abs(a[1]) < a[2] THEN LeadingZeros(a) + precision
                       ELSE precision
         IN  Q(RoundHalfEven(QMul(a, QInt(Pow10(digits)))), Pow10(digits))

\* numpy.linspace(a, b, sections + 1)
linspace(a, b, sections) ==
    Rows([k \in 0 .. sections |->
            IF k = sections THEN b
            ELSE QAdd(a, QDiv(QMul(QInt(k), QSub(b, a)), QInt(sections)))],
         sections + 1)

\* cut's end points for data that is all one value mn: 0.1% below and above.
CutEqualEnds(mn, sections) ==
    IF mn[1] # 0
    THEN linspace(QSub(mn, QMul(Thousandth, <<Abs(mn[1]), mn[2]>>)),
                  QAdd(mn, QMul(Thousandth, <<Abs(mn[1]), mn[2]>>)), sections)
    ELSE linspace(QSub(mn, Thousandth), QAdd(mn, Thousandth), sections)

\* cut's edges for data from mn to mx: the lowest edge 0.1% of the range lower.
CutRangeEnds(mn, mx, sections) ==
    [linspace(mn, mx, sections) EXCEPT ![0] = QSub(@, QMul(QSub(mx, mn), Thousandth))]

\* The bin edges cut computes from the range of the data.
CutBins(c, n, sections) ==
    LET all == [k \in 1 .. n |-> k - 1]
        mn == CloseMin(c, all)
        mx == CloseMax(c, all)
    IN  IF mn = mx THEN CutEqualEnds(mn, sections) ELSE CutRangeEnds(mn, mx, sections)

\* pandas _infer_precision: the first precision at which the rounded edges
\* are all different.
RECURSIVE infer_precision(_, _, _)
infer_precision(bins, sections, precision) ==
    IF precision >= 8 THEN 2
    ELSE IF Cardinality({round_frac(bins[k], precision) : k \in 0 .. sections}) = sections + 1
         THEN precision
         ELSE infer_precision(bins, sections, precision + 1)

\* The intervals of the edges rounded to `precision`.
LabelsAt(bins, sections, precision) ==
    [j \in Positions(sections) |->
        [left |-> IF j = 0
                  THEN QSub(round_frac(bins[0], precision), Q(1, Pow10(precision)))
                  ELSE round_frac(bins[j], precision),
         right |-> round_frac(bins[j + 1], precision)]]

\* pandas _format_labels: the interval (left, right] of each bin, its edges
\* rounded, the first left edge lowered by 10^-precision.
CutLabels(bins, sections) ==
    Rows(LabelsAt(bins, sections, infer_precision(bins, sections, 2)), sections)

\* bins.searchsorted(x, side='left') - 1, the lowest edge falling in bin 0.
CutBin(bins, sections, x) ==
    IF QInt(x) = bins[0] THEN 0
    ELSE Cardinality({k \in 0 .. sections : QLess(bins[k], QInt(x))}) - 1

\* The rows among the first n that cut puts in bin j, in row order.
RECURSIVE RowsInBin(_, _, _)
RowsInBin(binOf, n, j) ==
    IF n = 0 THEN << >>
    ELSE IF binOf[n - 1] = j THEN Append(RowsInBin(binOf, n - 1, j), n - 1)
         ELSE RowsInBin(binOf, n - 1, j)

GroupsOf(binOf, n, sections) ==
    Rows([j \in Positions(sections) |-> RowsInBin(binOf, n, j)], sections)

BinOfRows(c, n, bins, sections) ==
    Rows([k \in Positions(n) |-> CutBin(bins, sections, c[k])], n)

SortedAggregate(c, pos, neg, groups, labels, sections) ==
    [j \in Positions(sections) |->
        [low_close |-> labels[j].left,
         mean_close |-> CloseMean(c, groups[j]),
         high_close |-> labels[j].right,
         pos_volume |-> SumSkipNa(pos, groups[j]),
         neg_volume |-> SumSkipNa(neg, groups[j])]]

\* vp.py 37-47: the groups and the frame of the sort_close branch.
SortedFrame(c, pos, neg, n, sections, bins) ==
    SortedAggregate(c, pos, neg, GroupsOf(BinOfRows(c, n, bins, sections), n, sections),
                    CutLabels(bins, sections), sections)

\* vp.py 48-57: the frame of the chronological branch.
ChronologicalFrame(c, pos, neg, ranges, sections) ==
    [j \in Positions(sections) |->
        [low_close |-> CloseMin(c, ranges[j]),
         mean_close |-> CloseMean(c, ranges[j]),
         high_close |-> CloseMax(c, ranges[j]),
         pos_volume |-> SumSkipNa(pos, ranges[j]),
         neg_volume |-> SumSkipNa(neg, ranges[j])]]

\* One row of the frame with its total_volume column.
RowWithTotal(row) ==
    [low_close |-> row.low_close,
     mean_close |-> row.mean_close,
     high_close |-> row.high_close,
     pos_volume |-> row.pos_volume,
     neg_volume |-> row.neg_volume,
     total_volume |-> QAdd(row.pos_volume, row.neg_volume)]

\* vpdf[total_volume_col] = vpdf[pos_volume_col] + vpdf[neg_volume_col]
WithTotal(frame, sections) == [j \in Positions(sections) |-> RowWithTotal(frame[j])]

VpInit ==
    /\ pc = "vp_args"
    /\ LrIdle
    /\ TaIdle
    /\ m \in 1 .. MaxBars
    /\ close \in SeriesOf(m, PriceVals)
    /\ volume \in SeriesOf(m, VpVolumeVals)
    /\ width \in WidthArgs
    /\ sort_close \in BOOLEAN
    /\ vp_ranges = Idle
    /\ pos_volume = Idle
    /\ neg_volume = Idle
    /\ offset = Idle
    /\ result = Idle
    /\ high = Idle
    /\ low = Idle
    /\ index = Idle
    /\ warned = 0
    /\ SsfIdle

\* vp.py 37-58: the buckets' rows and the returned frame.
VpBuckets(w, pos, neg, ranges, bins) ==
    /\ pos_volume' = pos
    /\ neg_volume' = neg
    /\ vp_ranges' = IF sort_close THEN GroupsOf(BinOfRows(close, m, bins, w), m, w)
                    ELSE ranges
    /\ result' = Rows(WithTotal(
           IF sort_close THEN SortedFrame(close, pos, neg, m, w, bins)
           ELSE ChronologicalFrame(close, pos, neg, ranges, w), w), w)

\* vp.py 19-58 once both series are verified.
VpFrame(flat) ==
    VpBuckets(ValidWidth(width),
              Rows(PosVolume(signed_series(close, m, 1, flat), volume, m), m),
              Rows(NegVolume(signed_series(close, m, 1, flat), volume, m), m),
              IF sort_close THEN << >> ELSE Rows(array_split(m, ValidWidth(width)), ValidWidth(width)),
              IF sort_close THEN CutBins(close, m, ValidWidth(width)) ELSE << >>)

\* The whole call vp(close, volume, width, sort_close=...), made without the
\* fillna and fill_method keywords.
VpCall ==
    /\ pc = "vp_args"
    /\ UNCHANGED <<lrVars, taVars>>
    /\ width' = Some(ValidWidth(width))
    /\ \E ok \in verify_series(m, ValidWidth(width)), flat \in FlatSigns :
          IF ok
          THEN /\ VpFrame(flat)
               /\ pc' = "vp_done"
          ELSE /\ pc' = "vp_none"
               /\ UNCHANGED <<vp_ranges, pos_volume, neg_volume, result>>
    /\ UNCHANGED <<m, close, offset, sort_close, high, low, volume, index, warned, ssfVars>>

VpNext == VpCall

SpecVp == VpInit /\ [][VpNext]_vars

\* -------------------------------------------------------------- vp claims
RECURSIVE Concat(_, _)
Concat(ranges, n) == IF n = 0 THEN << >> ELSE Concat(ranges, n - 1) \o ranges[n - 1]

RECURSIVE RowCount(_, _)
RowCount(ranges, n) == IF n = 0 THEN 0 ELSE RowCount(ranges, n - 1) + Len(ranges[n - 1])

\* C7: in chronological mode with n >= width rows there are exactly width
\* buckets, they are contiguous runs of rows in the original order, every
\* row is in exactly one bucket and the buckets' row counts sum to n.
VpChronologicalPartition ==
    (pc = "vp_done" /\ ~sort_close /\ m >= width.v)
        => /\ DOMAIN result = Positions(width.v)
           /\ DOMAIN vp_ranges = Positions(width.v)
           /\ Concat(vp_ranges, width.v) = [k \in 1 .. m |-> k - 1]
           /\ RowCount(vp_ranges, width.v) = m

VpPartitionWitness ==
    /\ pc = "vp_done"
    /\ ~sort_close
    /\ m = 4
    /\ width.v = 3
    /\ Len(vp_ranges[0]) = 2
    /\ Len(vp_ranges[2]) = 1

RECURSIVE SumColumn(_, _, _)
SumColumn(frame, n, col) ==
    IF n = 0 THEN QInt(0) ELSE QAdd(SumColumn(frame, n - 1, col), frame[n - 1][col])

BucketCloses(j) == {close[vp_ranges[j][k]] : k \in 1 .. Len(vp_ranges[j])}

MeanIsRowAverage(j) ==
    result[j].mean_close = Q(SumOver({k \in Positions(m) : \E e \in 1 .. Len(vp_ranges[j]) :
                                         vp_ranges[j][e] = k}, close),
                             Len(vp_ranges[j]))

\* The bucket's bounds are the least and the greatest close of its rows and
\* its mean their average.
BoundsAreRowExtremes(j) ==
    /\ result[j].low_close[2] = 1
    /\ result[j].low_close[1] \in BucketCloses(j)
    /\ \A x \in BucketCloses(j) : result[j].low_close[1] <= x
    /\ result[j].high_close[2] = 1
    /\ result[j].high_close[1] \in BucketCloses(j)
    /\ \A x \in BucketCloses(j) : result[j].high_close[1] >= x
    /\ MeanIsRowAverage(j)
    /\ QLeq(result[j].low_close, result[j].mean_close)
    /\ QLeq(result[j].mean_close, result[j].high_close)

\* C9 as claimed: in both modes every returned bucket has low_close = the
\* minimum, high_close = the maximum and mean_close = the average of the
\* closes of its rows.
VpBoundsAreRowExtremes ==
    pc = "vp_done"
        => \A j \in Positions(width.v) : vp_ranges[j] # << >> => BoundsAreRowExtremes(j)

\* ======================================================= linear_regression
MaxObs == 3

MinObs == MaxObs - 1

ObsVals == {1, 2, 3}

\* The series linear_regression is handed: MinObs to MaxObs observations.
LrSeries == UNION {[1 .. k -> ObsVals] : k \in MinObs .. MaxObs}

\* A float known by its sign and its square: sign * sqrt(sq).  The square
\* roots of the correlation and of the t-statistic are kept exact this way.
Surd(sign, sq) ==
    IF IsNaN(sq) THEN [sign |-> 0, sq |-> QNaN]
    ELSE IF sq[1] = 0 THEN [sign |-> 0, sq |-> sq]
    ELSE [sign |-> sign, sq |-> sq]

SurdOf(q) == Surd(Sign(q[1]), QMul(q, q))

RECURSIVE SeqSum(_)
SeqSum(s) == IF s = << >> THEN 0 ELSE Head(s) + SeqSum(Tail(s))

RECURSIVE QSeqSum(_)
QSeqSum(s) == IF s = << >> THEN QInt(0) ELSE QAdd(Head(s), QSeqSum(Tail(s)))

Products(a, b) == [k \in 1 .. Len(a) |-> a[k] * b[k]]

\* m * (x * y).sum() - x_sum * y_sum
Mixture(a, b) == (Len(a) * SeqSum(Products(a, b))) - (SeqSum(a) * SeqSum(b))

\* npCorrcoef(x, y)[0, 1]: the Pearson coefficient, nan if a series is constant.
Corrcoef(a, b) ==
    Surd(Sign(Mixture(a, b)),
         Q(Mixture(a, b) * Mixture(a, b), Mixture(a, a) * Mixture(b, b)))

\* r / npSqrt((1 - r * r) / (m - 2))
TStatistic(r, size) ==
    LET inner == QDiv(QSub(QInt(1), r.sq), QInt(size - 2))
    IN  IF QLess(inner, QInt(0)) THEN Surd(0, QNaN)
        ELSE Surd(r.sign, QDiv(r.sq, inner))

\* a + b * x
Line(a, b, xs) == [k \in 1 .. Len(xs) |-> QAdd(a, QMul(b, QInt(xs[k])))]

\* _math.py 181-204.
linear_regression_np(xs, ys) ==
    LET size == Len(xs)
        x_sum == SeqSum(xs)
        y_sum == SeqSum(ys)
        r == Corrcoef(xs, ys)
        r_mixture == Mixture(xs, ys)
        b == Q(r_mixture, (size * SeqSum(Products(xs, xs))) - (x_sum * x_sum))
        a == QSub(Q(y_sum, size), QMul(b, Q(x_sum, size)))
    IN  [a |-> a, b |-> b, r |-> r, t |-> TStatistic(r, size), line |-> Line(a, b, xs)]

\* LinearRegression().fit(X, y): least squares on the centred data, the
\* minimum-norm solution (coefficient 0) when x is constant.
Fit(xs, ys) ==
    LET size == Len(xs)
        coef_ == IF Mixture(xs, xs) = 0 THEN QInt(0)
                 ELSE Q(Mixture(xs, ys), Mixture(xs, xs))
    IN  [coef_ |-> coef_,
         intercept_ |-> QSub(Q(SeqSum(ys), size), QMul(coef_, Q(SeqSum(xs), size)))]

\* lr.score(X, y): the coefficient of determination R^2 = 1 - u / v with u
\* the residual and v the total sum of squares; 1.0 for a perfect fit of a
\* constant y and 0.0 for an imperfect one.
Score(lr, xs, ys) ==
    LET size == Len(xs)
        mean == Q(SeqSum(ys), size)
        fitted == Line(lr.intercept_, lr.coef_, xs)
        residual == [k \in 1 .. size |-> QSub(QInt(ys[k]), fitted[k])]
        centred == [k \in 1 .. size |-> QSub(QInt(ys[k]), mean)]
        u == QSeqSum([k \in 1 .. size |-> QMul(residual[k], residual[k])])
        v == QSeqSum([k \in 1 .. size |-> QMul(centred[k], centred[k])])
    IN  IF v # QInt(0) THEN QSub(QInt(1), QDiv(u, v))
        ELSE IF u # QInt(0) THEN QInt(0)
        ELSE QInt(1)

\* _math.py 206-221.
linear_regression_sklearn(xs, ys) ==
    LET lr == Fit(xs, ys)
        r == SurdOf(Score(lr, xs, ys))
        a == lr.intercept_
        b == lr.coef_
    IN  [a |-> a, b |-> b, r |-> r, t |-> TStatistic(r, Len(xs)), line |-> Line(a, b, xs)]

NoResult == "None"

LrInit ==
    /\ pc = "lr_args"
    /\ lr_x \in LrSeries
    /\ lr_y \in LrSeries
    /\ Imports \in BOOLEAN
    /\ backend = "none"
    /\ result = Idle
    /\ m = 0
    /\ close = Idle
    /\ offset = Idle
    /\ SsfIdle
    /\ BarsIdle
    /\ VpIdle
    /\ raised = "none"
    /\ kind = Idle
    /\ alias = Idle
    /\ timed = FALSE
    /\ kwargs = Idle
    /\ df_empty = FALSE
    /\ table = Idle
    /\ fn = Idle
    /\ helped = 0
    /\ calls = 0

\* _math.py 68-82: the size check and the choice of the backend.  On a size
\* mismatch the function prints a message and returns None; nothing is
\* raised.
LrDispatch ==
    /\ pc = "lr_args"
    /\ IF Len(lr_x) # Len(lr_y)
       THEN /\ result' = NoResult
            /\ pc' = "lr_mismatch"
       ELSE /\ result' = result
            /\ pc' = IF Imports THEN "lr_sklearn" ELSE "lr_np"
    /\ UNCHANGED <<m, close, offset, ssfVars, barVars, vpVars, lrVars, taVars>>

LrSklearn ==
    /\ pc = "lr_sklearn"
    /\ result' = linear_regression_sklearn(lr_x, lr_y)
    /\ backend' = "sklearn"
    /\ pc' = "lr_done"
    /\ UNCHANGED <<m, close, offset, ssfVars, barVars, vpVars, lr_x, lr_y, Imports, taVars>>

LrNp ==
    /\ pc = "lr_np"
    /\ result' = linear_regression_np(lr_x, lr_y)
    /\ backend' = "np"
    /\ pc' = "lr_done"
    /\ UNCHANGED <<m, close, offset, ssfVars, barVars, vpVars, lr_x, lr_y, Imports, taVars>>

LrNext == LrDispatch \/ LrSklearn \/ LrNp

SpecLr == LrInit /\ [][LrNext]_vars

\* ------------------------------------------------ linear_regression claims
\* C10: for x and y of equal length n >= 3 both backends return the same a,
\* b, r, t and line, so what linear_regression returns is what either
\* backend returns for these inputs (nan counted as equal to nan).
LrBackendsEquivalent ==
    (pc = "lr_done" /\ Len(lr_x) >= 3)
        => /\ result = linear_regression_np(lr_x, lr_y)
           /\ result = linear_regression_sklearn(lr_x, lr_y)

\* C11: a call with x.size # y.size ends with a ValidationError raised to
\* the caller, an outcome that is not a value, with no backend invoked and
\* the inputs left at their different lengths.
LrMismatchRaises ==
    (pc # "lr_args" /\ Len(lr_x) # Len(lr_y))
        => /\ raised = "ValidationError"
           /\ result # NoResult
           /\ backend = "none"

\* ================================================== AnalysisIndicators (ta)
\* Column names are strings of characters, so that lower-casing and prefix
\* matching are computed; attribute names are atoms.
Upper == <<"A", "B", "C", "D", "E", "F", "G", "H", "I", "J", "K", "L", "M",
           "N", "O", "P", "Q", "R", "S", "T", "U", "V", "W", "X", "Y", "Z">>

Lower == <<"a", "b", "c", "d", "e", "f", "g", "h", "i", "j", "k", "l", "m",
           "n", "o", "p", "q", "r", "s", "t", "u", "v", "w", "x", "y", "z">>

lower_char(ch) ==
    IF \E k \in DOMAIN Upper : Upper[k] = ch
    THEN Lower[CHOOSE k \in DOMAIN Upper : Upper[k] = ch]
    ELSE ch

\* str.lower()
lower(str) == [k \in 1 .. Len(str) |-> lower_char(str[k])]

ColHigh == <<"h", "i", "g", "h">>
ColLow == <<"l", "o", "w">>
ColClose == <<"c", "l", "o", "s", "e">>
ColVolume == <<"v", "o", "l", "u", "m", "e">>

\* The frames the accessor is built on: the default column names, the same
\* names capitalised, a frame that has a close column only, and one that
\* has a close column and a column named 1.
Column(name, k) == [name |-> name, data |-> [is |-> "Series", data |-> <<"column", k>>]]

Frames ==
    {<<Column(ColHigh, 1), Column(ColLow, 2), Column(ColClose, 3), Column(ColVolume, 4)>>,
     <<Column(<<"H", "i", "g", "h">>, 1), Column(<<"L", "o", "w">>, 2),
       Column(<<"C", "l", "o", "s", "e">>, 3), Column(<<"V", "o", "l", "u", "m", "e">>, 4)>>,
     <<Column(ColClose, 1)>>,
     <<Column(ColClose, 1), Column(<<"1">>, 2)>>}

\* What a column argument of a wrapper can be: None, a column name, or a
\* Series.  NoArg is Python's None wherever the accessor handles one.
NoArg == [is |-> "None"]
StrArg(str) == [is |-> "str", str |-> str]
SeriesArg == [is |-> "Series", data |-> <<"series", 0>>]

CloseArgs ==
    {NoArg, SeriesArg, StrArg(<<"C", "l", "o", "s", "e">>), StrArg(<<"C", "L", "O">>),
     StrArg(<<"o", "p", "e", "n">>)}

VolumeArgs == {NoArg, SeriesArg}

\* The arguments of constants(apply, lower_bound, upper_bound, every), when
\* the caller passes them.
ConstantsArgs ==
    {NoArg} \cup [is : {"constants"}, apply : BOOLEAN, lower_bound : {1, 2},
                  upper_bound : {1, 2}, every : {1, 2}]

\* The keywords of a call.  A keyword that is NoArg or FALSE is one the caller
\* does not pass.
Kwargs == [close : CloseArgs, volume : VolumeArgs, append : BOOLEAN,
           constants : ConstantsArgs]

\* kind: not a string (None), or a string in some case.
NoKind == [is |-> "None"]
KindStr(name, lowered) == [is |-> "str", str |-> name, lowered |-> lowered]

Kinds ==
    {NoKind, KindStr("sma", "sma"), KindStr("SMA", "sma"), KindStr("Vwap", "vwap"),
     KindStr("vwma", "vwma"), KindStr("hl2", "hl2"), KindStr("ichimoku", "ichimoku"),
     KindStr("indicators", "indicators"),
     KindStr("constants", "constants"), KindStr("nosuch", "nosuch"),
     KindStr("help", "help")}

\* The attributes of an AnalysisIndicators object: the methods the class
\* defines and, unless the frame was empty, the instance attribute _df.
Methods ==
    {"_append", "_get_column", "constants", "indicators",
     "dema", "ema", "fwma", "hl2", "hlc3", "hma", "ichimoku", "midpoint", "midprice",
     "ohlc4", "pwma", "rma", "sma", "t3", "tema", "trima", "vwap", "vwma", "wma",
     "log_return", "percent_return",
     "kurtosis", "mad", "median", "quantile", "skew", "stdev", "variance", "zscore"}

Attributes(empty) == IF empty THEN Methods ELSE Methods \cup {"_df"}

\* An outcome of a call: a value or an exception, and what it printed.
Returns(v) == [exc |-> "none", value |-> v, printed |-> << >>]
Raises(e) == [exc |-> e, value |-> NoArg, printed |-> << >>]

ColumnNames(t) == {t[k].name : k \in DOMAIN t}

\* df[key] answering None where there is no such column.
GetItemOrNone(t, key) ==
    IF key.is = "str" /\ key.str \in ColumnNames(t)
    THEN Returns(t[CHOOSE k \in DOMAIN t : t[k].name = key.str].data)
    ELSE Returns(NoArg)

\* df[key]: the column of that name, KeyError if there is none (as for the
\* key None).
GetItem(t, key) ==
    IF key.is = "str" /\ key.str \in ColumnNames(t)
    THEN Returns(t[CHOOSE k \in DOMAIN t : t[k].name = key.str].data)
    ELSE Raises("KeyError")

\* print(NOT_FOUND): the message names the series and the columns; print
\* returns None.
NotFound(t, series) ==
    [exc |-> "none", value |-> NoArg,
     printed |-> <<[series |-> series.str, columns |-> [k \in DOMAIN t |-> t[k].name]]>>]

\* re.match(pattern, name, IGNORECASE) for a pattern of letters: name begins
\* with the pattern, case ignored.
str_match(name, pattern) ==
    /\ Len(pattern) <= Len(name)
    /\ SubSeq(lower(name), 1, Len(pattern)) = lower(pattern)

\* core.py 147-169.
get_column(empty, t, series, default) ==
    IF empty THEN Raises("AttributeError")
    ELSE IF series.is = "Series" THEN Returns(series)
    ELSE IF series.is = "None" \/ default.is = "None" THEN GetItem(t, default)
    ELSE IF series.str \in ColumnNames(t) THEN GetItem(t, series)
    ELSE LET match == {k \in DOMAIN t : str_match(t[k].name, series.str)}
         IN  IF match # {}
             THEN Returns(t[CHOOSE k \in match : \A j \in match : k <= j].data)
             ELSE NotFound(t, series)

\* The wrappers: the columns each resolves, in order, with their defaults.
WrapperInputs(name) ==
    CASE name = "sma" -> <<[param |-> "close", default |-> ColClose]>>
      [] name = "hl2" -> <<[param |-> "high", default |-> ColHigh],
                           [param |-> "low", default |-> ColLow]>>
      [] name = "ichimoku" -> <<[param |-> "high", default |-> ColHigh],
                                [param |-> "low", default |-> ColLow],
                                [param |-> "close", default |-> ColClose]>>
      [] name = "vwap" -> <<[param |-> "high", default |-> ColHigh],
                            [param |-> "low", default |-> ColLow],
                            [param |-> "close", default |-> ColClose],
                            [param |-> "volume", default |-> ColVolume]>>
      [] name = "vwma" -> <<[param |-> "close", default |-> ColClose],
                            [param |-> "volume", default |-> ColVolume]>>

Wrappers == {"sma", "hl2", "ichimoku", "vwap", "vwma"}

\* The resolved variable a wrapper passes for each parameter of the indicator.
PassedAs(name, param) ==
    IF name = "vwma" /\ param = "volume" THEN "close" ELSE param

ResultName(name) ==
    CASE name = "sma" -> <<"S", "M", "A", "_", "1", "0">>
      [] name = "hl2" -> <<"H", "L", "2">>
      [] name = "ichimoku" -> <<"I", "C", "H", "I">>
      [] name = "vwap" -> <<"V", "W", "A", "P">>
      [] name = "vwma" -> <<"V", "W", "M", "A", "_", "1", "0">>

\* The columns of the frame ichimoku returns.
ResultColumns(name) == <<<<"I", "S", "A">>, <<"I", "S", "B">>>>

\* The keyword the caller gave for a parameter; high and low are never given.
Given(kw, param) ==
    IF param = "close" THEN kw.close
    ELSE IF param = "volume" THEN kw.volume
    ELSE NoArg

\* The _get_column outcomes of a wrapper's inputs, by parameter.
Resolved(name, empty, t, kw) ==
    [k \in DOMAIN WrapperInputs(name) |->
        get_column(empty, t, Given(kw, WrapperInputs(name)[k].param),
                   StrArg(WrapperInputs(name)[k].default))]

ParamIndex(name, param) ==
    CHOOSE k \in DOMAIN WrapperInputs(name) : WrapperInputs(name)[k].param = param

\* The indicator function called on the resolved inputs.  The indicator
\* modules validate with verify_series; what they do with a missing input
\* is either to return None or to raise.
Indicator(name, args) ==
    IF \E k \in DOMAIN args : args[k] = NoArg
    THEN {Returns(NoArg), Raises("TypeError"), Raises("AttributeError")}
    ELSE IF name = "ichimoku"
    THEN {Returns([is |-> "DataFrame", name |-> ResultName(name),
                   columns |-> ResultColumns(name), args |-> args,
                   timed |-> FALSE, alias |-> FALSE])}
    ELSE {Returns([is |-> "Series", name |-> ResultName(name), args |-> args,
                   timed |-> FALSE,
                   alias |-> FALSE])}

\* df[name] = data with every column always added at the end.
SetItemAtEnd(t, name, data) == Append(t, [name |-> name, data |-> data])

\* df[name] = data: the column of that name is replaced where it stands, a
\* new name is added as the last column.
SetItem(t, name, data) ==
    IF name \in ColumnNames(t)
    THEN [k \in DOMAIN t |-> IF t[k].name = name THEN [name |-> name, data |-> data]
                              ELSE t[k]]
    ELSE Append(t, [name |-> name, data |-> data])

\* result.iloc[:, i]
ILocColumn(res, k) ==
    [is |-> "Series", name |-> res.columns[k], of |-> res.name, args |-> res.args]

\* for i, column in enumerate(result.columns): df[column] = result.iloc[:, i]
RECURSIVE AppendColumns(_, _, _)
AppendColumns(t, res, n) ==
    IF n = 0 THEN t
    ELSE SetItem(AppendColumns(t, res, n - 1), res.columns[n], ILocColumn(res, n))

\* _append without the test of the append keyword.
AppendedAlways(t, kw, res) ==
    IF res = NoArg THEN t
    ELSE IF res.is = "DataFrame" THEN AppendColumns(t, res, Len(res.columns))
    ELSE SetItem(t, res.name, res)

\* core.py 134-144.
Appended(t, kw, res) ==
    IF ~kw.append \/ res = NoArg THEN t
    ELSE IF res.is = "DataFrame" THEN AppendColumns(t, res, Len(res.columns))
    ELSE SetItem(t, res.name, res)

\* A wrapper method: resolve the columns, call the indicator, append.  The
\* set of [out, table] it can end with.
Wrapper(name, empty, t, kw) ==
    LET cols == Resolved(name, empty, t, kw)
        failed == {k \in DOMAIN cols : cols[k].exc # "none"}
        args == [k \in DOMAIN cols |->
                    cols[ParamIndex(name, PassedAs(name, WrapperInputs(name)[k].param))].value]
    IN  IF failed # {}
        THEN {[out |-> Raises(cols[CHOOSE k \in failed : \A j \in failed : k <= j].exc),
               table |-> t]}
        ELSE {[out |-> o,
               table |-> IF o.exc = "none" THEN Appended(t, kw, o.value)
                         ELSE t] : o \in Indicator(name, args)}

Digits == <<"0", "1", "2", "3", "4", "5", "6", "7", "8", "9">>

\* f'{x}' for an integer x >= 0.
RECURSIVE FormatInt(_)
FormatInt(n) ==
    IF n < 10 THEN <<Digits[n + 1]>>
    ELSE FormatInt(n \div 10) \o <<Digits[(n % 10) + 1]>>

\* levels = [x for x in range(lower_bound, upper_bound + 1) if x % every == 0]
RECURSIVE Levels(_, _, _)
Levels(lower_bound, upper_bound, every) ==
    IF lower_bound > upper_bound THEN << >>
    ELSE (IF lower_bound % every = 0 THEN <<lower_bound>> ELSE << >>)
             \o Levels(lower_bound + 1, upper_bound, every)

\* core.py 201-205: the loop over the levels, adding or deleting a column
\* for each; the first failure ends it with the earlier levels done.
RECURSIVE ApplyLevels(_, _, _, _)
ApplyLevels(empty, t, apply, levels) ==
    IF levels = << >> THEN [out |-> Returns(NoArg), table |-> t]
    ELSE IF empty THEN [out |-> Raises("AttributeError"), table |-> t]
    ELSE IF apply
    THEN ApplyLevels(empty, SetItem(t, FormatInt(Head(levels)),
                                    [is |-> "Series", constant |-> Head(levels)]),
                     apply, Tail(levels))
    ELSE IF FormatInt(Head(levels)) \in ColumnNames(t)
    THEN ApplyLevels(empty, SelectSeq(t, LAMBDA c : c.name # FormatInt(Head(levels))),
                     apply, Tail(levels))
    ELSE [out |-> Raises("KeyError"), table |-> t]

\* core.py 172-205: constants takes apply and its bounds and no other
\* keyword.
Constants(empty, t, kw) ==
    IF kw.constants = NoArg \/ kw.close # NoArg \/ kw.volume # NoArg \/ kw.append
    THEN [out |-> Raises("TypeError"), table |-> t]
    ELSE ApplyLevels(empty, t, kw.constants.apply,
                     Levels(kw.constants.lower_bound, kw.constants.upper_bound,
                            kw.constants.every))

\* fn(**kwargs) for the attribute getattr found.
CallAttribute(name, empty, t, kw) ==
    IF name \in Wrappers THEN Wrapper(name, empty, t, kw)
    ELSE IF name = "indicators" THEN {[out |-> Returns(NoArg), table |-> t]}
    ELSE IF name = "constants" THEN {Constants(empty, t, kw)}
    ELSE {[out |-> Raises("TypeError"), table |-> t]}

MaxCalls == 2

\* self.help(): the attribute lookup comes first.
HelpRaises(empty) == "help" \notin Attributes(empty)

TaInit ==
    /\ pc = "ta_call"
    /\ kind \in Kinds
    /\ alias \in BOOLEAN
    /\ timed \in BOOLEAN
    /\ kwargs \in Kwargs
    /\ kwargs.constants # NoArg => kind = KindStr("constants", "constants")
    /\ df_empty \in BOOLEAN
    /\ table \in Frames
    /\ calls = 1
    /\ fn = Idle
    /\ raised = "none"
    /\ helped = 0
    /\ result = Idle
    /\ m = 0
    /\ close = Idle
    /\ offset = Idle
    /\ SsfIdle
    /\ BarsIdle
    /\ VpIdle
    /\ LrIdle

\* core.py 105-108 and 127-128: the type test, kind.lower(), getattr, and
\* the else branch's self.help().
TaLookup ==
    /\ pc = "ta_call"
    /\ IF kind.is = "str"
       THEN /\ kind' = KindStr(kind.lowered, kind.lowered)
            /\ helped' = helped
            /\ result' = result
            /\ IF kind.lowered \in Attributes(df_empty)
               THEN /\ fn' = kind.lowered
                    /\ raised' = raised
                    /\ pc' = "ta_run"
               ELSE /\ fn' = fn
                    /\ raised' = "AttributeError"
                    /\ pc' = "ta_except"
       ELSE /\ kind' = kind
            /\ fn' = fn
            /\ IF HelpRaises(df_empty)
               THEN /\ raised' = "AttributeError"
                    /\ helped' = helped
                    /\ result' = result
                    /\ pc' = "ta_except"
               ELSE /\ raised' = raised
                    /\ helped' = helped + 1
                    /\ result' = NoArg
                    /\ pc' = "ta_returned"
    /\ UNCHANGED <<m, close, offset, ssfVars, barVars, vpVars, lrVars>>
    /\ UNCHANGED <<alias, timed, kwargs, df_empty, table, calls>>

\* core.py 110-125: run the indicator, set .timed and .alias, return it.
TaRun ==
    /\ pc = "ta_run"
    /\ \E end \in CallAttribute(fn, df_empty, table, kwargs) :
          /\ table' = end.table
          /\ IF end.out.exc # "none"
             THEN /\ raised' = end.out.exc
                  /\ result' = result
                  /\ pc' = "ta_except"
             ELSE IF (timed \/ alias) /\ end.out.value = NoArg
             THEN /\ raised' = "AttributeError"
                  /\ result' = result
                  /\ pc' = "ta_except"
             ELSE /\ raised' = raised
                  /\ result' = IF end.out.value = NoArg THEN NoArg
                               ELSE [end.out.value EXCEPT !.timed = timed, !.alias = alias]
                  /\ pc' = "ta_returned"
    /\ UNCHANGED <<m, close, offset, ssfVars, barVars, vpVars, lrVars>>
    /\ UNCHANGED <<kind, alias, timed, kwargs, df_empty, fn, helped, calls>>

\* core.py 130-131: except: self.help().
TaExcept ==
    /\ pc = "ta_except"
    /\ IF HelpRaises(df_empty)
       THEN /\ raised' = "AttributeError"
            /\ helped' = helped
            /\ result' = result
            /\ pc' = "ta_raised"
       ELSE /\ raised' = "none"
            /\ helped' = helped + 1
            /\ result' = NoArg
            /\ pc' = "ta_returned"
    /\ UNCHANGED <<m, close, offset, ssfVars, barVars, vpVars, lrVars>>
    /\ UNCHANGED <<kind, alias, timed, kwargs, df_empty, table, fn, calls>>

\* The caller makes the same call again on the same accessor.
TaAgain ==
    /\ pc \in {"ta_returned", "ta_raised"}
    /\ calls < MaxCalls
    /\ calls' = calls + 1
    /\ pc' = "ta_call"
    /\ fn' = Idle
    /\ raised' = "none"
    /\ result' = Idle
    /\ UNCHANGED <<m, close, offset, ssfVars, barVars, vpVars, lrVars>>
    /\ UNCHANGED <<kind, alias, timed, kwargs, df_empty, table, helped>>

TaNext == TaLookup \/ TaRun \/ TaExcept \/ TaAgain

SpecTa == TaInit /\ [][TaNext]_vars

\* ------------------------------------------- _get_column called directly
\* The tables of the direct calls: those of the dispatcher, one whose
\* columns differ in case only, and one without a volume column.
GcFrames ==
    Frames \cup
    {<<Column(<<"C", "l", "o", "s", "e">>, 1), Column(<<"C", "L", "O", "S", "E">>, 2)>>,
     <<Column(<<"O", "p", "e", "n">>, 1), Column(<<"H", "i", "g", "h">>, 2),
       Column(<<"L", "o", "w">>, 3), Column(<<"C", "l", "o", "s", "e">>, 4)>>}

GcSeriesArgs ==
    CloseArgs \cup {StrArg(ColClose), StrArg(<<"C", "L", "O", "S", "E">>),
                    StrArg(<<"V", "o", "l", "u", "m", "e">>)}

GcDefaultArgs == {NoArg, StrArg(ColClose), StrArg(ColVolume)}

GcInit ==
    /\ pc = "gc_call"
    /\ kwargs \in [series : GcSeriesArgs, default : GcDefaultArgs]
    /\ df_empty \in BOOLEAN
    /\ table \in GcFrames
    /\ result = Idle
    /\ kind = Idle
    /\ alias = Idle
    /\ timed = FALSE
    /\ fn = Idle
    /\ raised = "none"
    /\ helped = 0
    /\ calls = 0
    /\ m = 0
    /\ close = Idle
    /\ offset = Idle
    /\ SsfIdle
    /\ BarsIdle
    /\ VpIdle
    /\ LrIdle

\* core.py 147-169: the whole call; the table is only read.
GcCall ==
    /\ pc = "gc_call"
    /\ result' = get_column(df_empty, table, kwargs.series, kwargs.default)
    /\ raised' = result'.exc
    /\ pc' = "gc_done"
    /\ UNCHANGED <<m, close, offset, ssfVars, barVars, vpVars, lrVars>>
    /\ UNCHANGED <<kind, alias, timed, kwargs, df_empty, table, fn, helped, calls>>

GcNext == GcCall

SpecGc == GcInit /\ [][GcNext]_vars

\* ------------------------------------------------------ _get_column claims
\* The columns whose name is the string, case ignored.
SameIgnoringCase(t, str) == {k \in DOMAIN t : lower(t[k].name) = lower(str)}

\* C14: for a string that is not verbatim a column, the one column that
\* matches it case-insensitively is returned; with no such column or more
\* than one, nothing is returned and a diagnostic naming the string and the
\* table's columns is printed.
GcFuzzyMatchUnique ==
    (pc = "gc_done" /\ ~df_empty /\ kwargs.series.is = "str" /\ kwargs.default.is = "str"
        /\ kwargs.series.str \notin ColumnNames(table))
        => IF Cardinality(SameIgnoringCase(table, kwargs.series.str)) = 1
           THEN \E k \in SameIgnoringCase(table, kwargs.series.str) :
                    result = Returns(table[k].data)
           ELSE result = NotFound(table, kwargs.series)

\* C15: a string that names a column verbatim gets exactly that column,
\* whether a default is supplied or not.
GcVerbatimReturned ==
    (pc = "gc_done" /\ ~df_empty /\ kwargs.series.is = "str"
        /\ kwargs.series.str \in ColumnNames(table))
        => \E k \in DOMAIN table :
               /\ table[k].name = kwargs.series.str
               /\ result = Returns(table[k].data)

\* C16: with neither a series nor a default the call ends in an error, returns
\* no column and leaves the table as it was.
GcNothingToResolveFails ==
    [][(pc = "gc_call" /\ kwargs.series = NoArg /\ kwargs.default = NoArg)
          => /\ result'.exc # "none"
             /\ raised' # "none"
             /\ result'.value = NoArg
             /\ table' = table]_vars

GcNothingToResolveWitness ==
    /\ pc = "gc_done"
    /\ ~df_empty
    /\ kwargs.series = NoArg
    /\ kwargs.default = NoArg
    /\ raised = "KeyError"
    /\ Len(table) = 4

\* ------------------------------------------------- indicators(**kwargs)
MaxExclude == 2

\* dir(pd.DataFrame().ta): the attribute names in sorted order (the names
\* Python adds to every object all begin with an underscore).
DirNames ==
    <<"_append", "_get_column", "constants", "dema", "ema", "fwma", "hl2", "hlc3", "hma",
      "ichimoku", "indicators", "kurtosis", "log_return", "mad", "median", "midpoint",
      "midprice", "ohlc4", "percent_return", "pwma", "quantile", "rma", "skew", "sma",
      "stdev", "t3", "tema", "trima", "variance", "vwap", "vwma", "wma", "zscore">>

\* x.startswith('_') or x.endswith('_')
Underscored(name) == name \in {"_append", "_get_column"}

helper_methods == <<"indicators", "constants">>

\* list.remove(x): the list without its first x.
RECURSIVE Remove(_, _)
Remove(list, name) ==
    IF list = << >> THEN << >>
    ELSE IF Head(list) = name THEN Tail(list)
    ELSE <<Head(list)>> \o Remove(Tail(list), name)

\* The loop `for x in names: ta_indicators.remove(x)`; remove raises
\* ValueError for a name that is not in the list.
RECURSIVE RemoveAll(_, _)
RemoveAll(list, names) ==
    IF names = << >> THEN Returns([is |-> "list", items |-> list])
    ELSE IF \E k \in DOMAIN list : list[k] = Head(names)
    THEN RemoveAll(Remove(list, Head(names)), Tail(names))
    ELSE Raises("ValueError")

\* value in list, by Python's equality: a list equals no string.
In(value, list) == value.is = "str" /\ \E k \in DOMAIN list : list[k] = value.str

ListArg(items) == [is |-> "list", items |-> items]

ExcludeNames == {"sma", "vwap", "hl2", "ema", "nosuch"}

ExcludeArgs ==
    {NoArg, [is |-> "str", str |-> "sma"]}
        \cup {ListArg(items) : items \in UNION {[1 .. n -> ExcludeNames] : n \in 0 .. MaxExclude}}

\* core.py 208-233.
indicators(kw) ==
    LET ta_indicators ==
            RemoveAll(SelectSeq(DirNames, LAMBDA name : ~Underscored(name)),
                      helper_methods).value.items
        exclude_methods == kw.exclude
        remaining ==
            IF exclude_methods.is = "list" /\ In(exclude_methods, ta_indicators)
                   /\ Len(exclude_methods.items) > 0
            THEN RemoveAll(ta_indicators, exclude_methods.items)
            ELSE Returns(ListArg(ta_indicators))
    IN  IF remaining.exc # "none" \/ kw.as_list THEN remaining
        ELSE [exc |-> "none", value |-> NoArg, printed |-> <<remaining.value.items>>]

IndInit ==
    /\ pc = "ind_call"
    /\ kwargs \in [exclude : ExcludeArgs, as_list : BOOLEAN]
    /\ df_empty \in BOOLEAN
    /\ table = Idle
    /\ result = Idle
    /\ kind = Idle
    /\ alias = Idle
    /\ timed = FALSE
    /\ fn = Idle
    /\ raised = "none"
    /\ helped = 0
    /\ calls = 0
    /\ m = 0
    /\ close = Idle
    /\ offset = Idle
    /\ SsfIdle
    /\ BarsIdle
    /\ VpIdle
    /\ LrIdle

\* The whole call df.ta.indicators(exclude=..., as_list=...).
IndCall ==
    /\ pc = "ind_call"
    /\ result' = indicators(kwargs)
    /\ raised' = result'.exc
    /\ pc' = "ind_done"
    /\ UNCHANGED <<m, close, offset, ssfVars, barVars, vpVars, lrVars>>
    /\ UNCHANGED <<kind, alias, timed, kwargs, df_empty, table, fn, helped, calls>>

IndNext == IndCall

SpecInd == IndInit /\ [][IndNext]_vars

\* ------------------------------------------------------- indicators claims
\* The wrappers the class registers: its public methods without the helpers.
Registered ==
    SelectSeq(DirNames, LAMBDA name : ~Underscored(name) /\ name \notin {"indicators", "constants"})

\* C17: indicators(exclude=L, as_list=True) returns the registered names
\* that are not in L, every one of them, and none that is in L.
IndExcludesGiven ==
    (pc = "ind_done" /\ kwargs.as_list /\ kwargs.exclude.is = "list")
        => /\ result.exc = "none"
           /\ result.value.items =
                  SelectSeq(Registered,
                            LAMBDA name : \A k \in DOMAIN kwargs.exclude.items :
                                              kwargs.exclude.items[k] # name)

\* --------------------------------------------------------------- ta claims
\* C1: whatever kind is and whatever the indicator does, no exception leaves
\* AnalysisIndicators.__call__, and a call that found no indicator to run or
\* whose indicator raised ends with the help listing shown.
TaEndsInHelp ==
    /\ pc # "ta_raised"
    /\ (pc = "ta_returned" /\ fn = Idle) => helped > 0

\* The names of the columns a result carries.
ResultNames(res) ==
    IF res.is = "DataFrame" THEN {res.columns[k] : k \in DOMAIN res.columns}
    ELSE {res.name}

ColumnsNamed(t, name) == {k \in DOMAIN t : t[k].name = name}

\* C12: a call with append=True that returns a result leaves the table with
\* exactly one column for each name of the result, holding the result's
\* data, keeps every other column where it was with the data it had, and
\* adds no other column; this holds for a repeated call too, so that a
\* result name never has two columns.
AppendInsertsResult ==
    [][(pc = "ta_run" /\ pc' = "ta_returned" /\ kwargs.append /\ result' # NoArg)
          => /\ \A name \in ResultNames(result') :
                   /\ Cardinality(ColumnsNamed(table', name)) = 1
                   /\ \A k \in ColumnsNamed(table', name) :
                         /\ table'[k].data.name = name
                         /\ table'[k].data.args = result'.args
             /\ \A k \in DOMAIN table :
                   /\ k \in DOMAIN table'
                   /\ table'[k].name = table[k].name
                   /\ table[k].name \notin ResultNames(result') => table'[k] = table[k]
             /\ \A k \in DOMAIN table' \ DOMAIN table :
                   table'[k].name \in ResultNames(result')]_vars

AppendWitness ==
    /\ pc = "ta_returned"
    /\ calls = 2
    /\ kwargs.append
    /\ fn = "ichimoku"
    /\ result # NoArg
    /\ Len(table) = 6
    /\ table[1].name = ColHigh
    /\ table[5].data.of = result.name

\* C13 as claimed: whatever the kind, a call without append leaves the
\* table as it was.
TableOnlyChangedByAppend ==
    [][~kwargs.append => table' = table]_vars

\* C13 amended: a call without append whose kind is not the helper
\* constants leaves the table as it was.
TableOnlyChangedByAppendOrConstants ==
    [][(~kwargs.append /\ kind # KindStr("constants", "constants")) => table' = table]_vars

TableUnchangedWitness ==
    /\ pc = "ta_returned"
    /\ ~kwargs.append
    /\ fn = "sma"
    /\ result # NoArg
    /\ table \in Frames

\* C20: the indicator receives, for each input parameter of the wrapper, the
\* series _get_column resolved for that parameter.
WrapperPassesResolved ==
    (pc = "ta_returned" /\ fn \in Wrappers /\ result # NoArg)
        => \A k \in DOMAIN WrapperInputs(fn) :
               result.args[k] = Resolved(fn, df_empty, table, kwargs)[k].value

====
